---- MODULE Spec2Model ----
(***************************************************************************)
(* A model of emoji-kitchen-scan.py: the emoji filter (read_emoji_csv),    *)
(* the query generator (emoji_kitchen_build_queries), the sticker fetcher  *)
(* (emoji_kitchen_query), the result store (init_db_schema,                *)
(* db_write_sticker) and the orchestration of main.                        *)
(*                                                                         *)
(* Text is modelled as a sequence of code points; a symbol is one code     *)
(* point.  A JSON value is a record [t, s, n, items]: its type, its        *)
(* characters when a string, its number when an integer or a boolean, its  *)
(* elements when a list.                                                   *)
(***************************************************************************)
EXTENDS Integers, Sequences, FiniteSets, Bags, TLC

VARIABLES
    pc,                 \* the position of main
    csv_rows,           \* the rows csv.reader gives for the input file
    supported_emojis,   \* main: supported_emojis
    queries,            \* main: queries
    reorder,            \* FALSE: the loop of main; TRUE: the same loop over another order
    issued,             \* the indexes in queries of the queries already fetched
    api,                \* the collaborator's response to each query fetched so far
    data,               \* emoji_kitchen_query: data, the response last fetched
    yielded,            \* the Stickers the last call of emoji_kitchen_query yielded
    exc,                \* the exception that ended the run, or "none"
    stickers,           \* main: stickers
    written,            \* the ids of the stickers the final loop has written
    db                  \* the output database file

vars == <<pc, csv_rows, supported_emojis, queries, reorder, issued, api, data,
          yielded, exc, stickers, written, db>>

-----------------------------------------------------------------------------
(* Bounds of the model. *)

MaxRows == 2
MaxSymbols == 4
MaxTags == 3
MaxResults == 2

-----------------------------------------------------------------------------
(* Text. *)

\* The separator of the f-strings f"{s1}_{s2}": the code point of '_'.
Sep == 95

\* The "not found" code the fetcher tolerates.
NotFound == 404

\* All orders in which a set can be iterated.
Orderings(S) ==
    {f \in [1..Cardinality(S) -> S] : \A i, j \in DOMAIN f : i # j => f[i] # f[j]}

\* Python's comparison of two strings: by code point, a proper prefix first.
RECURSIVE StrLess(_, _)
StrLess(a, b) ==
    IF b = <<>> THEN FALSE
    ELSE IF a = <<>> THEN TRUE
    ELSE IF Head(a) # Head(b) THEN Head(a) < Head(b)
    ELSE StrLess(Tail(a), Tail(b))

\* list.sort(): insertion into a sorted list, after the equal elements.
RECURSIVE Insert(_, _)
Insert(x, sorted) ==
    IF sorted = <<>> THEN <<x>>
    ELSE IF StrLess(x, Head(sorted)) THEN <<x>> \o sorted
    ELSE <<Head(sorted)>> \o Insert(x, Tail(sorted))

\* The list left as it was built.
Unsorted(list) == list

RECURSIVE Sort(_)
Sort(list) ==
    IF list = <<>> THEN <<>>
    ELSE Insert(list[Len(list)], Sort(SubSeq(list, 1, Len(list) - 1)))

\* itertools.combinations(symbols, 2): the pairs of positions i < j, in order.
RECURSIVE combinations(_)
combinations(symbols) ==
    IF Len(symbols) < 2 THEN <<>>
    ELSE [j \in 1..(Len(symbols) - 1) |-> <<symbols[1], symbols[j + 1]>>]
         \o combinations(Tail(symbols))

-----------------------------------------------------------------------------
(* The emoji filter. *)

ALLOWED_CATEGORIES ==
    {"Animals & Nature", "Objects", "Food & Drink", "Smileys & Emotion",
     "Symbols", "Travel & Places", "People & Body"}

\* The characters the input rows are made of.
CsvChars == {94, 95, 96, 97, 98}

\* emojis.db.get_emoji_by_code: the category of the emoji, "None" when the
\* character is no emoji of the database.
get_emoji_by_code(symbol) ==
    CASE symbol = 94 -> "Smileys & Emotion"
      [] symbol = 96 -> "Animals & Nature"
      [] symbol = 97 -> "Flags"
      [] OTHER -> "None"

\* line[0][0] raises IndexError on a row without fields and on a row whose
\* first field is empty.
RowFails(line) == Len(line) = 0 \/ Len(line[1]) = 0

\* The set symbols after the loop over the reader.
CsvSymbols(rows) == {rows[i][1][1] : i \in DOMAIN rows}

\* The keys of emoji_map whose category is allowed.
FilteredEmojis(rows) ==
    {symbol \in CsvSymbols(rows) :
        /\ get_emoji_by_code(symbol) # "None"
        /\ get_emoji_by_code(symbol) \in ALLOWED_CATEGORIES}

-----------------------------------------------------------------------------
(* The query generator. *)

\* The two appends of the loop over combinations(symbols, 2).
RECURSIVE PairQueries(_)
PairQueries(pairs) ==
    IF pairs = <<>> THEN <<>>
    ELSE << <<pairs[1][1], Sep, pairs[1][2]>>, <<pairs[1][2], Sep, pairs[1][1]>> >>
         \o PairQueries(Tail(pairs))

emoji_kitchen_build_queries(symbols) ==
    Sort([i \in 1..Len(symbols) |-> <<symbols[i]>>]
         \o [i \in 1..Len(symbols) |-> <<symbols[i], Sep, symbols[i]>>]
         \o PairQueries(combinations(symbols)))

-----------------------------------------------------------------------------
(* JSON values and the collaborator's responses. *)

Missing == [t |-> "missing", s |-> <<>>, n |-> 0, items |-> <<>>]
JStr(s) == [t |-> "str", s |-> s, n |-> 0, items |-> <<>>]
JInt(n) == [t |-> "int", s |-> <<>>, n |-> n, items |-> <<>>]
JTrue == [t |-> "bool", s |-> <<>>, n |-> 1, items |-> <<>>]
JList(items) == [t |-> "list", s |-> <<>>, n |-> 0, items |-> items]

\* Python's truth value of a JSON value: None, "", 0, False and [] are false.
Truthy(v) ==
    CASE v.t = "str" -> v.s # <<>>
      [] v.t = "int" -> v.n # 0
      [] v.t = "bool" -> v.n = 1
      [] v.t = "list" -> v.items # <<>>
      [] OTHER -> FALSE

\* The value of the key "error": absent, a string, or an object with or without
\* a "code" and with or without other keys.
NoError == [t |-> "missing", code |-> Missing, other |-> FALSE]
ErrorObject(code, other) == [t |-> "dict", code |-> code, other |-> other]
ErrorText == [t |-> "str", code |-> Missing, other |-> FALSE]

\* Python's truth value of data.get('error'): an empty object is false.
ErrorTruthy(e) ==
    \/ e.t = "str"
    \/ e.t = "dict" /\ (e.code.t # "missing" \/ e.other)

\* The assertion without its second disjunct: no error is tolerated.
CheckErrorStrict(e) ==
    IF ~ErrorTruthy(e) THEN "none" ELSE "AssertionError"

\* The assertion left out: every error is tolerated.
CheckErrorTolerant(e) == "none"

\* assert (not data.get('error')) or (data.get('error', {}).get('code') == 404):
\* the exception it raises, or "none".
CheckError(e) ==
    IF ~ErrorTruthy(e) THEN "none"
    ELSE IF e.t # "dict" THEN "AttributeError"
    ELSE IF e.code.t = "int" /\ e.code.n = NotFound THEN "none"
    ELSE "AssertionError"

Sticker(id, symbols, url, created_time) ==
    [id |-> id, symbols |-> symbols, url |-> url, created_time |-> created_time]

\* assert x and isinstance(x, str), for id and url.
AssertStr(v) == Truthy(v) /\ v.t = "str"

\* assert created_time and isinstance(created_time, int); a bool is an int.
AssertInt(v) == Truthy(v) /\ v.t \in {"int", "bool"}

\* assert tags and isinstance(tags, list) and all(isinstance(tag, str) ...)
AssertTags(v) ==
    /\ Truthy(v)
    /\ v.t = "list"
    /\ \A k \in DOMAIN v.items : v.items[k].t = "str"

\* Every character of every tag, instead of the first of each.
SymbolsOfAllChars(items) ==
    UNION {{items[k].s[c] : c \in DOMAIN items[k].s} : k \in DOMAIN items}

\* frozenset(tag[0] for tag in tags), for tags that are non-empty strings.
SymbolsOf(items) == {items[k].s[1] : k \in DOMAIN items}

\* The body of the loop over the results, lines 98-113: the exception it
\* raises, or "none" and the Sticker it yields.
ParseEntry(result) ==
    IF ~(/\ AssertStr(result.id)
         /\ AssertStr(result.url)
         /\ AssertInt(result.created)
         /\ AssertTags(result.tags))
        THEN [exc |-> "AssertionError"]
    ELSE IF \E k \in DOMAIN result.tags.items : result.tags.items[k].s = <<>>
        THEN [exc |-> "IndexError"]
    ELSE [exc |-> "none",
          sticker |-> Sticker(result.id.s, SymbolsOf(result.tags.items),
                              result.url.s, result.created.n)]

\* A best-effort loop: an entry that raises is skipped.
RECURSIVE ParseResultsSkipping(_)
ParseResultsSkipping(results) ==
    IF results = <<>> THEN [yielded |-> <<>>, exc |-> "none"]
    ELSE IF ParseEntry(Head(results)).exc # "none"
        THEN ParseResultsSkipping(Tail(results))
    ELSE [yielded |-> <<ParseEntry(Head(results)).sticker>>
                      \o ParseResultsSkipping(Tail(results)).yielded,
          exc |-> "none"]

\* The loop over the results: the Stickers yielded until the results end or
\* an entry raises.
RECURSIVE ParseResults(_)
ParseResults(results) ==
    IF results = <<>> THEN [yielded |-> <<>>, exc |-> "none"]
    ELSE IF ParseEntry(Head(results)).exc # "none"
        THEN [yielded |-> <<>>, exc |-> ParseEntry(Head(results)).exc]
    ELSE [yielded |-> <<ParseEntry(Head(results)).sticker>>
                      \o ParseResults(Tail(results)).yielded,
          exc |-> ParseResults(Tail(results)).exc]

\* emoji_kitchen_query on the response d, run until it ends or raises.
emoji_kitchen_query(d) ==
    IF CheckError(d.error) # "none"
        THEN [yielded |-> <<>>, exc |-> CheckError(d.error)]
    ELSE ParseResults(d.results)

-----------------------------------------------------------------------------
(* The aggregation set of main. *)

\* Equality of every field, as the dataclass would define it by default.
StickerEqByContent(a, b) == a = b

\* EmojiKitchenSticker.__eq__ (and __hash__): the id alone.
StickerEq(a, b) == a.id = b.id

\* stickers = set(...) in place of stickers.update(...).
SetAssign(set, ys) == {ys[k] : k \in DOMAIN ys}

\* set.update over the Stickers yielded: one equal to a member is not added.
RECURSIVE SetUpdate(_, _)
SetUpdate(set, ys) ==
    IF ys = <<>> THEN set
    ELSE SetUpdate(IF \E x \in set : StickerEq(x, Head(ys))
                       THEN set ELSE set \cup {Head(ys)},
                   Tail(ys))

\* The loop of lines 166-167 run to its end over the queries at the indexes
\* order, given the response of the collaborator to each: the set it builds
\* and the exception that stopped it.
RECURSIVE Scan(_, _, _)
Scan(order, responses, set) ==
    IF order = <<>> THEN [stickers |-> set, exc |-> "none"]
    ELSE IF emoji_kitchen_query(responses[Head(order)]).exc # "none"
        THEN [stickers |-> SetUpdate(set, emoji_kitchen_query(responses[Head(order)]).yielded),
              exc |-> emoji_kitchen_query(responses[Head(order)]).exc]
    ELSE Scan(Tail(order), responses,
              SetUpdate(set, emoji_kitchen_query(responses[Head(order)]).yielded))

-----------------------------------------------------------------------------
(* The result store. *)

\* The rows of a database file that an earlier run has written.
OldStickerRow == <<<<48>>, <<94>>, <<104>>, 1>>
OldLookupRow == <<94, 94, <<48>>>>

\* The output file before the run: absent, or holding an earlier run's tables.
InitialDb(preexisting) ==
    [preexisting |-> preexisting,
     opened |-> FALSE,
     schema |-> preexisting,
     stickers |-> IF preexisting THEN SetToBag({OldStickerRow}) ELSE EmptyBag,
     sticker_lookup |-> IF preexisting THEN SetToBag({OldLookupRow}) ELSE EmptyBag]

\* The loop over the pairs: one INSERT INTO sticker_lookup each.
RECURSIVE InsertLookups(_, _, _)
InsertLookups(table, pairs, id) ==
    IF pairs = <<>> THEN table
    ELSE InsertLookups(table (+) SetToBag({<<pairs[1][1], pairs[1][2], id>>}),
                       Tail(pairs), id)

\* Without the special case of one symbol.
db_write_sticker_no_self_pair(d, sticker, symbols) ==
    [d EXCEPT
        !.stickers = @ (+) SetToBag({<<sticker.id, symbols, sticker.url,
                                       sticker.created_time>>}),
        !.sticker_lookup = InsertLookups(@, combinations(symbols), sticker.id)]

\* db_write_sticker; symbols is the order in which sticker.symbols iterates.
db_write_sticker(d, sticker, symbols) ==
    [d EXCEPT
        !.stickers = @ (+) SetToBag({<<sticker.id, symbols, sticker.url,
                                       sticker.created_time>>}),
        !.sticker_lookup =
            IF symbols = <<>> THEN @
            ELSE IF Len(symbols) = 1
                THEN InsertLookups(@, combinations(<<symbols[1], symbols[1]>>),
                                   sticker.id)
            ELSE InsertLookups(@, combinations(symbols), sticker.id)]

-----------------------------------------------------------------------------
(* The inputs. *)

CsvFields == {<<>>} \cup {<<c>> : c \in CsvChars} \cup {<<c, 120>> : c \in CsvChars}
CsvRowSet == {<<>>} \cup {<<f>> : f \in CsvFields} \cup {<<f, <<120>>>> : f \in CsvFields}
CsvInputs == UNION {[1..n -> CsvRowSet] : n \in 0..MaxRows}

\* The input files of the runs of main.
MainCsvInputs ==
    { << <<<<94, 120>>>> >>,
      << <<<<94>>>>, <<<<96>>, <<120>>>>, <<<<94>>>> >>,
      << <<<<96>>>>, <<<<97>>>>, <<<<98>>>> >>,
      << <<<<94>>>>, <<>> >> }

\* The symbols the query generator is given: no separator among them.
BuildSymbols == (93..(93 + MaxSymbols)) \ {Sep}
DistinctLists(S, n) ==
    {f \in UNION {[1..m -> S] : m \in 0..n} :
        \A i, j \in DOMAIN f : i # j => f[i] # f[j]}

TagItems == {JStr(<<94>>), JStr(<<96, 94>>), JStr(<<97>>), JStr(<<>>), JInt(1)}
TagsValues ==
    {Missing, JStr(<<94>>)}
        \cup {JList(l) : l \in UNION {[1..n -> TagItems] : n \in 0..MaxTags}}
IdValues == {Missing, JStr(<<>>), JStr(<<49>>), JInt(7)}
UrlValues == {Missing, JStr(<<>>), JStr(<<104>>), JInt(7)}
CreatedValues == {Missing, JInt(0), JInt(5), JTrue, JStr(<<53>>)}
RichEntries == [id : IdValues, url : UrlValues, created : CreatedValues, tags : TagsValues]

Entry(id, url, tags) ==
    [id |-> JStr(id), url |-> JStr(url), created |-> JInt(5), tags |-> JList(tags)]
EntryOne == Entry(<<49>>, <<104>>, <<JStr(<<94>>)>>)
EntryOneAgain == Entry(<<49>>, <<105>>, <<JStr(<<94>>), JStr(<<96>>)>>)
EntryTwo == Entry(<<50>>, <<104>>, <<JStr(<<94>>), JStr(<<96>>)>>)
EntryThree == Entry(<<51>>, <<104>>, <<JStr(<<94>>), JStr(<<96>>), JStr(<<97>>)>>)
EntryNoUrl == [EntryTwo EXCEPT !.url = Missing]
EntryEmptyTag == [EntryTwo EXCEPT !.tags = JList(<<JStr(<<94>>), JStr(<<>>)>>)]

Response(error, results) == [error |-> error, results |-> results]

Errors ==
    {NoError, ErrorText,
     ErrorObject(Missing, FALSE), ErrorObject(Missing, TRUE),
     ErrorObject(JInt(404), FALSE), ErrorObject(JInt(404), TRUE),
     ErrorObject(JInt(500), TRUE), ErrorObject(JStr(<<52, 48, 52>>), TRUE)}

SmallEntries == {EntryOne, EntryTwo, EntryNoUrl, EntryEmptyTag}

\* The responses the fetcher is checked on: every single entry, and every
\* error with every short list of entries.
QueryResponses ==
    {Response(NoError, <<e>>) : e \in RichEntries}
        \cup {Response(e, rs) : e \in Errors,
                               rs \in UNION {[1..n -> SmallEntries] : n \in 0..MaxResults}}

\* The responses of the collaborator in the runs of main.
MainResponses ==
    {Response(ErrorObject(JInt(404), TRUE), <<>>),
     Response(NoError, <<EntryOne>>),
     Response(NoError, <<EntryOneAgain, EntryThree>>),
     Response(NoError, <<EntryOne, EntryNoUrl>>),
     Response(ErrorObject(JInt(500), TRUE), <<>>)}

\* The responses of the collaborator in the runs that compare orders.
OrderResponses ==
    {Response(ErrorObject(JInt(404), TRUE), <<>>),
     Response(NoError, <<EntryOne>>),
     Response(NoError, <<EntryOneAgain, EntryTwo>>),
     Response(NoError, <<EntryNoUrl>>)}

\* The Stickers the store is checked on.
DbStickers ==
    {Sticker(id, symbols, <<104>>, created) :
        id \in {<<49>>, <<50>>}, symbols \in SUBSET {94, 96, 97}, created \in {1, 5}}

NoData == Response(NoError, <<>>)

-----------------------------------------------------------------------------
(* The steps of main. *)

Remaining == DOMAIN queries \ issued

\* read_emoji_csv, lines 43-62.
ReadEmojiCsv ==
    /\ pc = "read"
    /\ IF \E i \in DOMAIN csv_rows : RowFails(csv_rows[i])
          THEN /\ exc' = "IndexError"
               /\ pc' = "crashed"
               /\ UNCHANGED supported_emojis
          ELSE /\ supported_emojis' \in Orderings(FilteredEmojis(csv_rows))
               /\ pc' = "build"
               /\ UNCHANGED exc
    /\ UNCHANGED <<csv_rows, queries, reorder, issued, api, data, yielded,
                   stickers, written, db>>

\* queries = emoji_kitchen_build_queries(supported_emojis), line 163.
BuildQueries ==
    /\ pc = "build"
    /\ queries' = emoji_kitchen_build_queries(supported_emojis)
    /\ pc' = "fetch"
    /\ UNCHANGED <<csv_rows, supported_emojis, reorder, issued, api, data,
                   yielded, exc, stickers, written, db>>

\* An exception is caught and the scan goes on.
AfterFetchSwallowing(e) == "fetch"

\* Nothing catches an exception of the fetcher: it ends the run.
AfterFetch(e) == IF e = "none" THEN "fetch" ELSE "crashed"

\* stickers.update(emoji_kitchen_query(query)), line 167, for the query at
\* index i and the response d of the collaborator.
Fetch(i, d) ==
    /\ pc = "fetch"
    /\ i \in Remaining
    /\ issued' = issued \cup {i}
    /\ api' = api @@ (i :> d)
    /\ data' = d
    /\ yielded' = emoji_kitchen_query(d).yielded
    /\ stickers' = SetUpdate(stickers, emoji_kitchen_query(d).yielded)
    /\ exc' = emoji_kitchen_query(d).exc
    /\ pc' = AfterFetch(emoji_kitchen_query(d).exc)
    /\ UNCHANGED <<csv_rows, supported_emojis, queries, reorder, written, db>>

\* The loop of line 166 takes the queries in the order of the list.
FetchNext(pool) ==
    /\ ~reorder
    /\ \E i \in Remaining, d \in pool :
          /\ \A j \in Remaining : i <= j
          /\ Fetch(i, d)

\* The same loop over the queries in any other order.
FetchAnyOrder(pool) ==
    /\ reorder
    /\ \E i \in Remaining, d \in pool : Fetch(i, d)

\* The loop has ended: lines 169-171.
EndScan ==
    /\ pc = "fetch"
    /\ Remaining = {}
    /\ pc' = "open"
    /\ UNCHANGED <<csv_rows, supported_emojis, queries, reorder, issued, api,
                   data, yielded, exc, stickers, written, db>>

\* sqlite3.connect(sqlite_output), line 173.
OpenDb ==
    /\ pc = "open"
    /\ db' = [db EXCEPT !.opened = TRUE]
    /\ pc' = "schema"
    /\ UNCHANGED <<csv_rows, supported_emojis, queries, reorder, issued, api,
                   data, yielded, exc, stickers, written>>

\* init_db_schema, lines 117-125: CREATE ... IF NOT EXISTS.
InitDbSchema ==
    /\ pc = "schema"
    /\ db' = [db EXCEPT !.schema = TRUE]
    /\ pc' = "write"
    /\ UNCHANGED <<csv_rows, supported_emojis, queries, reorder, issued, api,
                   data, yielded, exc, stickers, written>>

\* One turn of the loop of lines 177-178, in the order the set iterates.
WriteSticker ==
    /\ pc = "write"
    /\ \E sticker \in stickers \ written :
          /\ \E symbols \in Orderings(sticker.symbols) :
                db' = db_write_sticker(db, sticker, symbols)
          /\ written' = written \cup {sticker}
    /\ UNCHANGED <<pc, csv_rows, supported_emojis, queries, reorder, issued,
                   api, data, yielded, exc, stickers>>

\* The loop has ended; the connection commits: lines 173 and 180.
CloseDb ==
    /\ pc = "write"
    /\ stickers \ written = {}
    /\ pc' = "done"
    /\ UNCHANGED <<csv_rows, supported_emojis, queries, reorder, issued, api,
                   data, yielded, exc, stickers, written, db>>

MainFetch == FetchNext(MainResponses)
QueryFetch == FetchNext(QueryResponses)
OrderFetch == FetchNext(OrderResponses)
OrderFetchAnyOrder == FetchAnyOrder(OrderResponses)

-----------------------------------------------------------------------------
(* The specifications. *)

Idle ==
    /\ supported_emojis = <<>>
    /\ queries = <<>>
    /\ reorder = FALSE
    /\ issued = {}
    /\ api = <<>>
    /\ data = NoData
    /\ yielded = <<>>
    /\ exc = "none"
    /\ stickers = {}
    /\ written = {}

\* A run of main.
Init ==
    /\ pc = "read"
    /\ csv_rows \in MainCsvInputs
    /\ db \in {InitialDb(FALSE), InitialDb(TRUE)}
    /\ Idle

Next ==
    \/ ReadEmojiCsv
    \/ BuildQueries
    \/ MainFetch
    \/ EndScan
    \/ OpenDb
    \/ InitDbSchema
    \/ WriteSticker
    \/ CloseDb

Spec == Init /\ [][Next]_vars

\* read_emoji_csv on every input.
InitCsv ==
    /\ pc = "read"
    /\ csv_rows \in CsvInputs
    /\ db = InitialDb(FALSE)
    /\ Idle

SpecCsv == InitCsv /\ [][ReadEmojiCsv]_vars

\* emoji_kitchen_build_queries on every list of distinct symbols.
InitBuild ==
    /\ pc = "build"
    /\ csv_rows = <<>>
    /\ db = InitialDb(FALSE)
    /\ supported_emojis \in DistinctLists(BuildSymbols, MaxSymbols)
    /\ queries = <<>>
    /\ reorder = FALSE
    /\ issued = {}
    /\ api = <<>>
    /\ data = NoData
    /\ yielded = <<>>
    /\ exc = "none"
    /\ stickers = {}
    /\ written = {}

SpecBuild == InitBuild /\ [][BuildQueries]_vars

\* emoji_kitchen_query on one query and every response.
InitQuery ==
    /\ pc = "fetch"
    /\ csv_rows = <<>>
    /\ db = InitialDb(FALSE)
    /\ supported_emojis = <<94>>
    /\ queries = <<<<94>>>>
    /\ reorder = FALSE
    /\ issued = {}
    /\ api = <<>>
    /\ data = NoData
    /\ yielded = <<>>
    /\ exc = "none"
    /\ stickers = {}
    /\ written = {}

SpecQuery == InitQuery /\ [][QueryFetch]_vars

\* The scan of main, in the order of the list and in every other order.
InitOrder ==
    /\ pc = "build"
    /\ csv_rows = <<>>
    /\ db = InitialDb(FALSE)
    /\ supported_emojis \in DistinctLists({94, 96}, 2)
    /\ queries = <<>>
    /\ reorder \in BOOLEAN
    /\ issued = {}
    /\ api = <<>>
    /\ data = NoData
    /\ yielded = <<>>
    /\ exc = "none"
    /\ stickers = {}
    /\ written = {}

NextOrder == BuildQueries \/ OrderFetch \/ OrderFetchAnyOrder \/ EndScan

SpecOrder == InitOrder /\ [][NextOrder]_vars

\* db_write_sticker on every Sticker, through the final loop of main.
InitDb ==
    /\ pc = "write"
    /\ csv_rows = <<>>
    /\ db \in {[InitialDb(p) EXCEPT !.opened = TRUE, !.schema = TRUE] : p \in BOOLEAN}
    /\ supported_emojis = <<>>
    /\ queries = <<>>
    /\ reorder = FALSE
    /\ issued = {}
    /\ api = <<>>
    /\ data = NoData
    /\ yielded = <<>>
    /\ exc = "none"
    /\ \E sticker \in DbStickers : stickers = {sticker}
    /\ written = {}

NextDb == WriteSticker \/ CloseDb

SpecDb == InitDb /\ [][NextDb]_vars

-----------------------------------------------------------------------------
(* The properties. *)

\* a sorts before b: at the first position where they differ a ends or has
\* the smaller code point.
LexBefore(a, b) ==
    \E k \in 1..(Len(b)) :
        /\ \A m \in 1..(k - 1) : m <= Len(a) /\ a[m] = b[m]
        /\ k > Len(a) \/ (k <= Len(a) /\ a[k] < b[k])

Range(f) == {f[i] : i \in DOMAIN f}

\* Every query the contract asks for over the symbols S.
ExpectedQueries(S) == {<<s>> : s \in S} \cup {<<a, Sep, b>> : a \in S, b \in S}

\* C1: for N distinct symbols the query list is strictly sorted (so without
\* duplicates), holds exactly each symbol alone and 'a_b' for every a and b of
\* the input (a = b included), has 2N + N(N-1) elements, and is made of input
\* symbols and the separator only.
C1_QueriesComplete ==
    pc = "fetch" =>
        /\ \A i \in 1..(Len(queries) - 1) : LexBefore(queries[i], queries[i + 1])
        /\ Range(queries) = ExpectedQueries(Range(supported_emojis))
        /\ Len(queries) = 2 * Len(supported_emojis)
                          + Len(supported_emojis) * (Len(supported_emojis) - 1)
        /\ \A i \in DOMAIN queries :
              Range(queries[i]) \subseteq Range(supported_emojis) \cup {Sep}

C1_Witness ==
    /\ pc = "fetch"
    /\ Len(supported_emojis) = 3
    /\ supported_emojis[1] > supported_emojis[2]
    /\ \E i \in DOMAIN supported_emojis : supported_emojis[i] < Sep

\* The rows of a table whose column col holds id, counted with repetition.
RowsWithId(table, col, id) ==
    BagCardinality([r \in {x \in BagToSet(table) : x[col] = id} |-> table[r]])

\* The rows a table holds beyond those of the file as it was before the run.
Added(table, before) == table (-) before

\* C2: db_write_sticker adds exactly one row to stickers, carrying the id; for
\* the symbol set {A} it adds exactly the lookup row (A, A, id); for {A, B} it
\* adds exactly one lookup row, (A, B, id) or (B, A, id), and no self-pair.
C2_WriteRows ==
    \A sticker \in written :
        /\ BagCardinality(Added(db.stickers, InitialDb(db.preexisting).stickers)) = 1
        /\ RowsWithId(Added(db.stickers, InitialDb(db.preexisting).stickers),
                      1, sticker.id) = 1
        /\ \A a \in sticker.symbols :
              sticker.symbols = {a} =>
                  Added(db.sticker_lookup, InitialDb(db.preexisting).sticker_lookup)
                      = SetToBag({<<a, a, sticker.id>>})
        /\ \A a, b \in sticker.symbols :
              (a # b /\ sticker.symbols = {a, b}) =>
                  Added(db.sticker_lookup, InitialDb(db.preexisting).sticker_lookup)
                      \in {SetToBag({<<a, b, sticker.id>>}),
                           SetToBag({<<b, a, sticker.id>>})}

C2_Witness ==
    /\ pc = "done"
    /\ db.preexisting
    /\ \E sticker \in written : sticker.symbols = {94, 96}
    /\ BagIn(<<96, 94, <<49>>>>, db.sticker_lookup)

\* The ids of the result entries the collaborator has returned.
ReturnedIds ==
    UNION {{api[i].results[k].id.s : k \in DOMAIN api[i].results} : i \in DOMAIN api}

\* The number of unordered pairs in a set of n symbols, one symbol pairing with
\* itself.
PairCount(n) == IF n <= 1 THEN 1 ELSE (n * (n - 1)) \div 2

\* C3 as stated: after a completed run on an empty database, stickers holds
\* one row per distinct id returned, and sticker_lookup one row per such id.
C3_OneRowEach ==
    (pc = "done" /\ ~db.preexisting) =>
        /\ BagCardinality(db.stickers) = Cardinality(ReturnedIds)
        /\ \A id \in ReturnedIds : RowsWithId(db.stickers, 1, id) = 1
        /\ BagCardinality(db.sticker_lookup) = Cardinality(ReturnedIds)
        /\ \A id \in ReturnedIds : RowsWithId(db.sticker_lookup, 3, id) = 1

\* C3, amended: after a completed run on an empty database, stickers holds
\* exactly one row per distinct id returned, however many queries returned it,
\* and sticker_lookup holds, per such id, one row for each unordered pair of
\* the symbols of the Sticker kept for it: one row for one or two symbols,
\* n(n-1)/2 rows for n symbols.
C3_OneStickerRowEach ==
    (pc = "done" /\ ~db.preexisting) =>
        /\ BagCardinality(db.stickers) = Cardinality(ReturnedIds)
        /\ \A id \in ReturnedIds : RowsWithId(db.stickers, 1, id) = 1
        /\ {s.id : s \in stickers} = ReturnedIds
        /\ \A s \in stickers :
              RowsWithId(db.sticker_lookup, 3, s.id) = PairCount(Cardinality(s.symbols))
        /\ \A r \in BagToSet(db.sticker_lookup) : r[3] \in ReturnedIds

C3_Witness ==
    /\ pc = "done"
    /\ ~db.preexisting
    /\ \E i, j \in DOMAIN api :
          /\ i # j
          /\ \E k \in DOMAIN api[i].results, m \in DOMAIN api[j].results :
                /\ api[i].results[k].id = api[j].results[m].id
                /\ api[i].results[k] # api[j].results[m]
    /\ \E s \in stickers : Cardinality(s.symbols) = 3

\* Some fetch of the scan has failed fatally.
FetchFailed == \E i \in DOMAIN api : emoji_kitchen_query(api[i]).exc # "none"

\* C4: once a fetch of the scan fails fatally the run is over, and the output
\* database is as it was before the run: never opened, no schema initialised,
\* no row inserted; whenever the database has been touched, every query has
\* been fetched and none has failed.
C4_NoWriteAfterFailure ==
    /\ FetchFailed => (pc = "crashed" /\ db = InitialDb(db.preexisting))
    /\ db # InitialDb(db.preexisting) => (issued = DOMAIN queries /\ ~FetchFailed)

C4_Witness ==
    /\ FetchFailed
    /\ Cardinality(issued) >= 2
    /\ stickers # {}
    /\ pc = "crashed"
    /\ exc = "AssertionError"

\* The response carries an error object whose code is the "not found" code.
IsNotFound(e) == e.t = "dict" /\ e.code.t = "int" /\ e.code.n = 404

\* The error object has no key at all.
IsEmptyObject(e) == e.t = "dict" /\ e.code.t = "missing" /\ ~e.other

\* The entry as the fetcher accepts it: id and url non-empty strings, created
\* a non-zero integer (or true), tags a non-empty list of non-empty strings.
Accepted(e) ==
    /\ e.id.t = "str" /\ e.id.s # <<>>
    /\ e.url.t = "str" /\ e.url.s # <<>>
    /\ (e.created.t = "int" /\ e.created.n # 0) \/ (e.created.t = "bool" /\ e.created.n = 1)
    /\ e.tags.t = "list" /\ e.tags.items # <<>>
    /\ \A k \in DOMAIN e.tags.items :
          e.tags.items[k].t = "str" /\ e.tags.items[k].s # <<>>

\* The entry as the contract words it: id a string, url a string, created an
\* integer, tags a list of non-empty strings.
WellTyped(e) ==
    /\ e.id.t = "str"
    /\ e.url.t = "str"
    /\ e.created.t = "int"
    /\ e.tags.t = "list"
    /\ \A k \in DOMAIN e.tags.items :
          e.tags.items[k].t = "str" /\ e.tags.items[k].s # <<>>

\* C5 as stated: a response with a "not found" error yields zero Stickers and
\* raises nothing.
C5_NotFoundYieldsNothing ==
    (issued # {} /\ IsNotFound(data.error)) => (yielded = <<>> /\ exc = "none")

\* C5, amended: a "not found" error raises nothing by itself: with no result
\* entries the fetcher yields zero Stickers and raises no exception, and result
\* entries in such a response are parsed like those of any response (all
\* yielded, without exception, when every one is accepted).
C5_NotFoundTolerated ==
    (issued # {} /\ IsNotFound(data.error)) =>
        /\ data.results = <<>> => (yielded = <<>> /\ exc = "none")
        /\ (\A k \in DOMAIN data.results : Accepted(data.results[k])) =>
              (exc = "none" /\ Len(yielded) = Len(data.results))
        /\ exc # "none" => \E k \in DOMAIN data.results : ~Accepted(data.results[k])

C5_Witness ==
    /\ issued # {}
    /\ IsNotFound(data.error)
    /\ data.results = <<>>
    /\ yielded = <<>>
    /\ exc = "none"
    /\ pc = "fetch"

\* C6 as stated: every response with an error object whose code is absent or
\* differs from 404 fails fatally and yields no Sticker.
C6_OtherErrorsFatal ==
    (issued # {} /\ data.error.t = "dict" /\ ~IsNotFound(data.error)) =>
        (exc # "none" /\ pc = "crashed" /\ yielded = <<>>)

\* C6, amended: an error object is tolerated only when it is empty (Python
\* takes {} for no error) or its code equals 404: every response with a
\* non-empty error object whose code is absent or differs from 404 fails with
\* an AssertionError and yields no Sticker.
C6_NonEmptyOtherErrorsFatal ==
    /\ (issued # {} /\ data.error.t = "dict" /\ ~IsEmptyObject(data.error)
            /\ ~IsNotFound(data.error)) =>
          (exc = "AssertionError" /\ pc = "crashed" /\ yielded = <<>> /\ stickers = {})
    /\ (issued # {} /\ data.error.t = "dict" /\ yielded # <<>>) =>
          (IsNotFound(data.error) \/ IsEmptyObject(data.error))

C6_Witness ==
    /\ issued # {}
    /\ data.error = ErrorObject(Missing, TRUE)
    /\ data.results # <<>>
    /\ \A k \in DOMAIN data.results : Accepted(data.results[k])
    /\ exc = "AssertionError"
    /\ pc = "crashed"

\* The error of the response does not stop the fetcher.
ErrorPasses(e) == e.t = "missing" \/ IsEmptyObject(e) \/ IsNotFound(e)

\* The entries before the first one that is not ok.
GoodPrefix(results, ok(_)) ==
    {k \in DOMAIN results : \A m \in 1..k : ok(results[m])}

\* The fetcher is strict with ok as the test of an entry: it yields the
\* entries before the first one that is not ok, one Sticker each and in
\* order, and fails exactly when there is such an entry.
StrictFor(ok(_)) ==
    (issued # {} /\ ErrorPasses(data.error)) =>
        /\ Len(yielded) = Cardinality(GoodPrefix(data.results, ok))
        /\ \A k \in DOMAIN yielded : yielded[k].id = data.results[k].id.s
        /\ exc # "none" <=> \E k \in DOMAIN data.results : ~ok(data.results[k])
        /\ exc # "none" <=> pc = "crashed"

\* C7 as stated: an entry yields a Sticker exactly when id is a string, url a
\* string, created an integer and tags a list of non-empty strings; any other
\* entry is fatal when reached, and no later entry is yielded.
C7_StrictOnTypes == StrictFor(WellTyped)

\* C7, amended: an entry yields a Sticker exactly when id is a non-empty
\* string, url a non-empty string, created a non-zero integer (true counts as
\* one) and tags a non-empty list of non-empty strings; any other entry fails
\* fatally when reached (an AssertionError, or an IndexError when all that is
\* wrong is an empty tag), is never skipped, and no later entry is yielded.
C7_StrictOnAccepted ==
    /\ StrictFor(Accepted)
    /\ (issued # {} /\ ErrorPasses(data.error)) =>
          /\ exc \in {"none", "AssertionError", "IndexError"}
          /\ exc = "IndexError" =>
                \E k \in DOMAIN data.results :
                    /\ k = Len(yielded) + 1
                    /\ data.results[k].tags.t = "list"
                    /\ \E m \in DOMAIN data.results[k].tags.items :
                          data.results[k].tags.items[m] = JStr(<<>>)

C7_Witness ==
    /\ issued # {}
    /\ data.error.t = "missing"
    /\ Len(data.results) = 2
    /\ Accepted(data.results[1])
    /\ ~Accepted(data.results[2])
    /\ Len(yielded) = 1
    /\ exc = "AssertionError"

\* C8 as stated: every Sticker yielded has one or two symbols.
C8_OneOrTwoSymbols ==
    \A k \in DOMAIN yielded : Cardinality(yielded[k].symbols) \in {1, 2}

\* C8, amended: every Sticker yielded has a non-empty symbols set with at most
\* one symbol per tag of its entry: between 1 and the number of tags (one or
\* two symbols when the entry has at most two tags).
C8_OneSymbolPerTag ==
    (issued # {} /\ ErrorPasses(data.error)) =>
        \A k \in DOMAIN yielded :
            /\ Cardinality(yielded[k].symbols) >= 1
            /\ Cardinality(yielded[k].symbols) <= Len(data.results[k].tags.items)
            /\ yielded[k].symbols
                  = {data.results[k].tags.items[m].s[1] :
                        m \in DOMAIN data.results[k].tags.items}

C8_Witness ==
    /\ issued # {}
    /\ \E k \in DOMAIN yielded :
          /\ Len(data.results[k].tags.items) = 3
          /\ Cardinality(yielded[k].symbols) = 2

\* The scan of main over the recorded responses, in the order of the list.
ListOrderScan == Scan([i \in DOMAIN queries |-> i], api, {})

\* The rows db_write_sticker gives for a set of Stickers, whatever the order
\* of the symbols in a row.
RowsOf(set) ==
    {<<s.id, s.symbols, s.url, s.created_time>> : s \in set}

\* Every id comes with one content in the recorded responses.
SameContentPerId ==
    \A i, j \in DOMAIN api :
        \A k \in DOMAIN api[i].results, m \in DOMAIN api[j].results :
            api[i].results[k].id = api[j].results[m].id =>
                api[i].results[k] = api[j].results[m]

\* A step of the loop of main fetches the least query not fetched yet.
IssuesLeastQuery ==
    (~reorder /\ issued' # issued) =>
        \E i \in DOMAIN queries :
            /\ i \notin issued
            /\ issued' = issued \cup {i}
            /\ \A j \in DOMAIN queries \ issued' : LexBefore(queries[i], queries[j])

\* C9 as stated: whatever the order in which the queries are issued, the
\* aggregated set, and so the rows written, are those of the sorted order.
C9_SameRowsAnyOrder ==
    pc = "open" => RowsOf(stickers) = RowsOf(ListOrderScan.stickers)

\* C9, amended: main issues the queries one at a time in sorted order, and
\* for any other order of the same queries against the same responses the
\* scan ends the same way with the same sticker ids, one Sticker per id, so
\* stickers and sticker_lookup get rows for the same ids; the other columns
\* of an id's rows are those of the first response issued that returned the
\* id, and are the same whenever the responses give each id one content.
C9_SameIdsAnyOrder ==
    /\ [](pc = "open" =>
            /\ ListOrderScan.exc = "none"
            /\ {s.id : s \in stickers} = {s.id : s \in ListOrderScan.stickers}
            /\ Cardinality(stickers) = Cardinality(ListOrderScan.stickers)
            /\ SameContentPerId => stickers = ListOrderScan.stickers
            /\ ~reorder => stickers = ListOrderScan.stickers)
    /\ [][IssuesLeastQuery]_vars

C9_Witness ==
    /\ pc = "open"
    /\ reorder
    /\ Len(queries) = 6
    /\ stickers # ListOrderScan.stickers
    /\ Cardinality(stickers) = 2

\* The symbols the contract asks read_emoji_csv for: the first character of
\* some row's first field, of an allowed category.
ExpectedEmojis ==
    {c \in CsvChars :
        /\ \E i \in DOMAIN csv_rows :
              Len(csv_rows[i]) > 0 /\ Len(csv_rows[i][1]) > 0 /\ csv_rows[i][1][1] = c
        /\ get_emoji_by_code(c) \in ALLOWED_CATEGORIES}

\* C10: read_emoji_csv has no error condition: on every sequence of rows it
\* returns, without failing, the distinct symbols that begin some row's first
\* field and whose category is allowed.
C10_NeverFails ==
    pc # "read" =>
        /\ exc = "none"
        /\ pc = "build"
        /\ Range(supported_emojis) = ExpectedEmojis
        /\ Len(supported_emojis) = Cardinality(ExpectedEmojis)

====
